---- MODULE Spec2Model ----
(***************************************************************************)
(* Model of snorkel/learning/gen_learning.py: the GenerativeModel factor    *)
(* graph compiler (train, _process_dependency_graph, _compile,              *)
(* _compile_output_factors, _compile_dep_factors, _process_learned_weights, *)
(* marginals) and the NaiveBayes SGD loop.                                  *)
(*                                                                          *)
(* Conventions.                                                             *)
(*  - A Python attribute that has not been assigned is None_; an assigned   *)
(*    one is Some(v).                                                       *)
(*  - A call that raises records the exception class in obs[inst].exc and   *)
(*    the source line in obs[inst].site; "none" means the call returned.    *)
(*  - The label matrix argument carries the flag `callable`: line 228       *)
(*    evaluates self.L.shape(), which returns only for an argument whose    *)
(*    shape attribute is itself callable; for an array whose shape is a     *)
(*    plain tuple the call raises TypeError.  Both kinds of argument are    *)
(*    enumerated.                                                           *)
(*  - scipy.sparse.lil_matrix(n, n) is taken as the empty n x n adjacency   *)
(*    the surrounding code uses it as; tocoo() enumerates entries in        *)
(*    row-major order.                                                      *)
(*  - Reals are scaled integers: weight initial values are in units of      *)
(*    1/(10*RandLevels); learned weights are integers.                      *)
(***************************************************************************)
EXTENDS Integers, Sequences, FiniteSets, TLC

VARIABLES gm, obs, sgd

vars == <<gm, obs, sgd>>

(* ------------------------------ bounds ---------------------------------- *)
MaxM == 2
MaxN == 2
MaxDeps == 2
MaxMargDeps == 1
MaxMarginals == 1
MaxTrains == 1
MaxPairTrains == 2
RandLevels == 4
MaxIter == 11
MaxFeatures == 1

(* ------------------------- program constants ---------------------------- *)
DEP_SIMILAR == 0
DEP_FIXING == 1
DEP_REINFORCING == 2
DEP_EXCLUSIVE == 3
DefaultSeed == 271828
MinSteps == 10

None_ == [tag |-> "None"]
Some(v) == [tag |-> "Some", v |-> v]
IsNone(x) == x.tag = "None"
IsSome(x) == x.tag = "Some"

Abs(x) == IF x < 0 THEN -x ELSE x

RECURSIVE SumSeq(_)
SumSeq(s) == IF s = <<>> THEN 0 ELSE Head(s) + SumSeq(Tail(s))

(* self.optional_names / self.dep_names, in the order the code iterates     *)
optional_names == <<"lf_prior", "lf_propensity", "lf_class_propensity">>
dep_names == <<"dep_similar", "dep_fixing", "dep_reinforcing", "dep_exclusive">>

(* dep_name_map of _process_dependency_graph: kind constant -> attribute    *)
DepKindName(t) ==
  CASE t = DEP_SIMILAR -> "dep_similar"
    [] t = DEP_FIXING -> "dep_fixing"
    [] t = DEP_REINFORCING -> "dep_reinforcing"
    [] t = DEP_EXCLUSIVE -> "dep_exclusive"
DepKinds == {DEP_SIMILAR, DEP_FIXING, DEP_REINFORCING, DEP_EXCLUSIVE}

(* ------------------------------ inputs ---------------------------------- *)
(* Values a caller may put in a cell: the three votes and the stray 2.      *)
LabelValues == {-1, 0, 1, 2}
ValidLabels == {-1, 0, 1}

(* m x n matrix whose rows are all the row r.                               *)
RowMatrix(m, n, r, cal) ==
  [m |-> m, n |-> n, callable |-> cal,
   c |-> [i \in 0..(m - 1) |-> r]]
Matrices(vals, cals) ==
  UNION {UNION {{RowMatrix(m, n, r, cal) : r \in [0..(n - 1) -> vals], cal \in cals}
                : n \in 1..MaxN} : m \in 1..MaxM}
Cell(L, i, j) == L.c[i][j]

(* Dependency triples (lf1, lf2, dep_type); kind 4 is an unrecognized one.  *)
Triples(n, kinds) == (0..(n - 1)) \X (0..(n - 1)) \X kinds
SeqsUpTo(S, k) == UNION {[1..l -> S] : l \in 0..k}

(* ------------------------- random.Random ------------------------------- *)
(* The generator is a deterministic function of its seed and of how many    *)
(* values have been drawn; random() yields level/RandLevels in [0, 1).      *)
RandomAt(seed, pos) == ((((seed % 7) + 3) * (pos + 5)) + (pos * pos)) % RandLevels
(* self.rng = random.Random(); self.rng.seed(seed)                          *)
NewRng(seed) == [seed |-> seed, pos |-> 0]
(* 1.1 - .2 * self.rng.random(), in units of 1/(10*RandLevels)              *)
WeightInitialValue(rng, k) == 11 * RandLevels - 2 * RandomAt(rng.seed, rng.pos + k)
(* self.rng.randrange(0, 2) == int(random() * 2)                            *)
Randrange2(rng, k) == (RandomAt(rng.seed, rng.pos + k) * 2) \div RandLevels

(* ---------------------- GenerativeModel.__init__ ------------------------ *)
NewModel(lf_prior, lf_propensity, lf_class_propensity, seed) ==
  [L |-> None_, fg |-> None_,
   lf_prior |-> lf_prior, lf_propensity |-> lf_propensity,
   lf_class_propensity |-> lf_class_propensity,
   rng |-> NewRng(seed),
   dep |-> None_,
   class_prior_weight |-> None_, lf_accuracy_weights |-> None_,
   lf_prior_weights |-> None_, lf_propensity_weights |-> None_,
   lf_class_propensity_weights |-> None_,
   dep_similar_weights |-> None_, dep_fixing_weights |-> None_,
   dep_reinforcing_weights |-> None_, dep_exclusive_weights |-> None_]

(* getattr(self, optional_name)                                             *)
Toggle(self, name) ==
  CASE name = "lf_prior" -> self.lf_prior
    [] name = "lf_propensity" -> self.lf_propensity
    [] name = "lf_class_propensity" -> self.lf_class_propensity

(* ------------------ _process_dependency_graph --------------------------- *)
(* lines 206-207: every adjacency is replaced by an empty one               *)
EmptyDepMats == [name \in {dep_names[x] : x \in 1..4} |-> {}]

(* lines 209-218: the triples in order; the first bad one raises ValueError *)
RECURSIVE DepLoop(_, _, _)
DepLoop(mats, deps, idx) ==
  IF idx > Len(deps) THEN [exc |-> "none", site |-> 0, mats |-> mats]
  ELSE LET lf1 == deps[idx][1]
           lf2 == deps[idx][2]
           dep_type == deps[idx][3]
       IN IF lf1 = lf2
          THEN [exc |-> "ValueError", site |-> 211, mats |-> mats]
          ELSE IF dep_type \in DepKinds
               THEN DepLoop([mats EXCEPT ![DepKindName(dep_type)] = @ \cup {<<lf1, lf2>>}],
                            deps, idx + 1)
               ELSE [exc |-> "ValueError", site |-> 216, mats |-> mats]

(* A variant without lines 206-207: the adjacencies of the previous call    *)
(* are kept.                                                                *)
ProcessDependencyGraphMut(self, deps) ==
  DepLoop(IF IsSome(self.dep) THEN self.dep.v ELSE EmptyDepMats, deps, 1)
(* _process_dependency_graph(self, deps): whatever self held before, the    *)
(* loop starts from the empty adjacencies                                   *)
ProcessDependencyGraph(self, deps) == DepLoop(EmptyDepMats, deps, 1)

(* tocoo(): the (row, col) entries of an adjacency in row-major order       *)
RECURSIVE CooSeq(_)
CooSeq(S) ==
  IF S = {} THEN <<>>
  ELSE LET p == CHOOSE x \in S : \A y \in S :
                  x[1] < y[1] \/ (x[1] = y[1] /\ x[2] <= y[2])
       IN <<p>> \o CooSeq(S \ {p})
(* getnnz()                                                                 *)
Nnz(mats, name) == Cardinality(mats[name])

(* ------------------------------ _compile -------------------------------- *)
(* np.zeros(..., Factor) / np.zeros(..., FactorToVar) entries               *)
ZeroFactor ==
  [factorFunction |-> "ZERO", weightId |-> 0, featureValue |-> 0,
   arity |-> 0, ftv_offset |-> 0]
ZeroFtv == [vid |-> 0]

(* the vid lambdas of lines 309-349, by the variable they are written for   *)
VidFunc(tag, m, n, i, j, k) ==
  CASE tag = "class" -> i
    [] tag = "lf_j" -> m + n * i + j
    [] tag = "lf_k" -> m + n * i + k

(* optional_name_map and dep_name_map of _compile, and the accuracy call    *)
FactorName(name) ==
  CASE name = "lf_accuracy" -> "FUNC_DP_GEN_LF_ACCURACY"
    [] name = "lf_prior" -> "FUNC_DP_GEN_LF_PRIOR"
    [] name = "lf_propensity" -> "FUNC_DP_GEN_LF_PROPENSITY"
    [] name = "lf_class_propensity" -> "FUNC_DP_GEN_LF_CLASS_PROPENSITY"
    [] name = "dep_similar" -> "FUNC_DP_GEN_DEP_SIMILAR"
    [] name = "dep_fixing" -> "FUNC_DP_GEN_DEP_FIXING"
    [] name = "dep_reinforcing" -> "FUNC_DP_GEN_DEP_REINFORCING"
    [] name = "dep_exclusive" -> "FUNC_DP_GEN_DEP_EXCLUSIVE"
VidFuncs(name) ==
  CASE name = "lf_accuracy" -> <<"class", "lf_j">>
    [] name = "lf_prior" -> <<"lf_j">>
    [] name = "lf_propensity" -> <<"lf_j">>
    [] name = "lf_class_propensity" -> <<"class", "lf_j">>
    [] name = "dep_similar" -> <<"lf_j", "lf_k">>
    [] name = "dep_fixing" -> <<"class", "lf_j", "lf_k">>
    [] name = "dep_reinforcing" -> <<"class", "lf_j", "lf_k">>
    [] name = "dep_exclusive" -> <<"lf_j", "lf_k">>

(* An assignment into a numpy array: IndexError past the end. fcnt and ecnt *)
(* count the assignments each slot has received.                            *)
WriteFactor(st, idx, rec, line) ==
  IF st.exc # "none" THEN st
  ELSE IF idx \notin DOMAIN st.factor
       THEN [st EXCEPT !.exc = "IndexError", !.site = line]
       ELSE [st EXCEPT !.factor[idx] = rec, !.fcnt[idx] = @ + 1]
WriteFtv(st, idx, vid, line) ==
  IF st.exc # "none" THEN st
  ELSE IF idx \notin DOMAIN st.ftv
       THEN [st EXCEPT !.exc = "IndexError", !.site = line]
       ELSE [st EXCEPT !.ftv[idx] = [vid |-> vid], !.ecnt[idx] = @ + 1]

(* lines 381-382 and 403-404: `for i, vid_func in enumerate(vid_funcs)`;    *)
(* the loop variable i is the position in vid_funcs and is what the lambda  *)
(* receives as its candidate argument.                                      *)
RECURSIVE VidLoop(_, _, _, _, _, _, _, _, _)
VidLoop(st, ftv_index, vid_funcs, i, m, n, j, k, line) ==
  IF i >= Len(vid_funcs) THEN st
  ELSE VidLoop(WriteFtv(st, ftv_index + i, VidFunc(vid_funcs[i + 1], m, n, i, j, k), line),
               ftv_index, vid_funcs, i + 1, m, n, j, k, line)

(* lines 370-382. it counts the (outer i, j) iterations. The inner enumerate *)
(* loop rebinds i, so for j > 0 the body starts with i = len(vid_funcs) - 1. *)
RECURSIVE OutputLoop(_, _, _, _, _)
OutputLoop(st, m, n, g, it) ==
  IF it >= m * n \/ st.exc # "none" THEN st
  ELSE LET j == it % n
           i == IF j = 0 THEN it \div n ELSE Len(g.vid_funcs) - 1
           factors_index == g.factors_offset + n * i + j
           ftv_index == g.ftv_offset + Len(g.vid_funcs) * (n * i + j)
           st1 == WriteFactor(st, factors_index,
                    [factorFunction |-> g.factor_name,
                     weightId |-> g.weight_offset + j,
                     featureValue |-> 1,
                     arity |-> Len(g.vid_funcs),
                     ftv_offset |-> g.ftv_offset], 375)
       IN OutputLoop(VidLoop(st1, ftv_index, g.vid_funcs, 0, m, n, j, 0, 382),
                     m, n, g, it + 1)

(* _compile_output_factors; st holds the factors and ftv arrays, and the    *)
(* returned offsets are left in st.f_off, st.ftv_off, st.w_off.             *)
CompileOutputFactors(st, L, factors_offset, ftv_offset, weight_offset, factor_name, vid_funcs) ==
  LET g == [factors_offset |-> factors_offset, ftv_offset |-> ftv_offset,
            weight_offset |-> weight_offset, factor_name |-> factor_name,
            vid_funcs |-> vid_funcs]
      r == OutputLoop(st, L.m, L.n, g, 0)
  IN IF r.exc # "none" THEN r
     ELSE [r EXCEPT !.f_off = factors_offset + L.m * L.n,
                    !.ftv_off = ftv_offset + Len(vid_funcs) * L.m * L.n,
                    !.w_off = weight_offset + L.n]

(* lines 393-404 *)
RECURSIVE DepFactorLoop(_, _, _, _, _)
DepFactorLoop(st, m, n, g, i) ==
  IF i >= m \/ st.exc # "none" THEN st
  ELSE LET factors_index == g.factors_offset + i
           ftv_index == g.ftv_offset + Len(g.vid_funcs) * i
           st1 == WriteFactor(st, factors_index,
                    [factorFunction |-> g.factor_name,
                     weightId |-> g.weight_offset,
                     featureValue |-> 1,
                     arity |-> Len(g.vid_funcs),
                     ftv_offset |-> g.ftv_offset], 397)
       IN DepFactorLoop(VidLoop(st1, ftv_index, g.vid_funcs, 0, m, n, g.j, g.k, 404),
                        m, n, g, i + 1)

(* _compile_dep_factors *)
CompileDepFactors(st, L, factors_offset, ftv_offset, weight_offset, j, k, factor_name, vid_funcs) ==
  LET g == [factors_offset |-> factors_offset, ftv_offset |-> ftv_offset,
            weight_offset |-> weight_offset, factor_name |-> factor_name,
            vid_funcs |-> vid_funcs, j |-> j, k |-> k]
      r == DepFactorLoop(st, L.m, L.n, g, 0)
  IN IF r.exc # "none" THEN r
     ELSE [r EXCEPT !.f_off = factors_offset + L.m,
                    !.ftv_off = ftv_offset + Len(vid_funcs) * L.m,
                    !.w_off = weight_offset + 1]

(* lines 298-305: the class prior factors *)
RECURSIVE ClassPriorLoop(_, _, _)
ClassPriorLoop(st, m, i) ==
  IF i >= m \/ st.exc # "none" THEN st
  ELSE ClassPriorLoop(
         WriteFtv(WriteFactor(st, i,
                    [factorFunction |-> "FUNC_DP_GEN_CLASS_PRIOR", weightId |-> 0,
                     featureValue |-> 1, arity |-> 1, ftv_offset |-> i], 299),
                  i, i, 305),
         m, i + 1)

(* lines 324-328 *)
RECURSIVE OptionalLoop(_, _, _)
OptionalLoop(self, st, x) ==
  IF x > Len(optional_names) \/ st.exc # "none" THEN st
  ELSE IF Toggle(self, optional_names[x])
       THEN OptionalLoop(self,
              CompileOutputFactors(st, self.L.v, st.f_off, st.ftv_off, st.w_off,
                                   FactorName(optional_names[x]),
                                   VidFuncs(optional_names[x])),
              x + 1)
       ELSE OptionalLoop(self, st, x + 1)

(* lines 354-358: one call per stored entry of the adjacency *)
RECURSIVE DepEntryLoop(_, _, _, _, _)
DepEntryLoop(self, st, dep_name, coo, i) ==
  IF i > Len(coo) \/ st.exc # "none" THEN st
  ELSE DepEntryLoop(self,
         CompileDepFactors(st, self.L.v, st.f_off, st.ftv_off, st.w_off,
                           coo[i][1], coo[i][2],
                           FactorName(dep_name), VidFuncs(dep_name)),
         dep_name, coo, i + 1)

(* lines 352-358 *)
RECURSIVE DepNameLoop(_, _, _)
DepNameLoop(self, st, x) ==
  IF x > Len(dep_names) \/ st.exc # "none" THEN st
  ELSE DepNameLoop(self,
         DepEntryLoop(self, st, dep_names[x], CooSeq(self.dep.v[dep_names[x]]), 1),
         x + 1)

(* lines 230-249: the sizes computed before the arrays are allocated *)
NWeights(self) ==
  1 + self.L.v.n
    + self.L.v.n * Cardinality({x \in 1..3 : Toggle(self, optional_names[x])})
    + SumSeq([x \in 1..4 |-> Nnz(self.dep.v, dep_names[x])])
NVars(self) == self.L.v.m * (self.L.v.n + 1)
NFactors(self) == self.L.v.m * NWeights(self)
NEdges(self) ==
  LET n == self.L.v.n
      mats == self.dep.v
  IN (1 + 2 * n
      + (IF self.lf_prior THEN n ELSE 0)
      + (IF self.lf_propensity THEN n ELSE 0)
      + (IF self.lf_class_propensity THEN 2 * n ELSE 0)
      + 2 * Nnz(mats, "dep_similar") + 3 * Nnz(mats, "dep_fixing")
      + 3 * Nnz(mats, "dep_reinforcing") + 2 * Nnz(mats, "dep_exclusive"))
     * self.L.v.m

(* lines 281-289: the initial value of an observed label variable *)
LabelInitialValue(v) == CASE v = 1 -> 2 [] v = 0 -> 1 [] v = -1 -> 0

(* lines 260-291: weight and variable arrays *)
WeightArray(self) ==
  [i \in 0..(NWeights(self) - 1) |->
     IF i = 0 THEN [isFixed |-> FALSE, initialValue |-> -10 * RandLevels]
     ELSE [isFixed |-> FALSE, initialValue |-> WeightInitialValue(self.rng, i - 1)]]
VariableArray(self) ==
  LET L == self.L.v
  IN [v \in 0..(NVars(self) - 1) |->
       IF v < L.m
       THEN [isEvidence |-> 0,
             initialValue |-> Randrange2(self.rng, NWeights(self) - 1 + v),
             dataType |-> 1, cardinality |-> 2]
       ELSE [isEvidence |-> 1,
             initialValue |-> LabelInitialValue(Cell(L, (v - L.m) \div L.n, (v - L.m) % L.n)),
             dataType |-> 1, cardinality |-> 3]]

(* _compile. The result records the exception (or "none"), the number of    *)
(* random values drawn, the sizes, and the arrays as they are when          *)
(* loadFactorGraph is reached.                                              *)
Compile(self) ==
  LET L == self.L.v
      none == [exc |-> "none", site |-> 0, drawn |-> 0,
               n_weights |-> 0, n_vars |-> 0, n_factors |-> 0, n_edges |-> 0,
               weight |-> <<>>, variable |-> <<>>, factor |-> <<>>, ftv |-> <<>>,
               fcnt |-> <<>>, ecnt |-> <<>>, f_off |-> 0, ftv_off |-> 0, w_off |-> 0]
  IN IF ~L.callable
     THEN [none EXCEPT !.exc = "TypeError", !.site = 228]
     ELSE LET sized == [none EXCEPT !.n_weights = NWeights(self), !.n_vars = NVars(self),
                                    !.n_factors = NFactors(self), !.n_edges = NEdges(self),
                                    !.drawn = NWeights(self) - 1 + L.m]
          IN IF \E i \in 0..(L.m - 1), j \in 0..(L.n - 1) : Cell(L, i, j) \notin ValidLabels
             THEN [sized EXCEPT !.exc = "TypeError", !.site = 288]
             ELSE LET st0 == [sized EXCEPT
                                !.weight = WeightArray(self),
                                !.variable = VariableArray(self),
                                !.factor = [f \in 0..(sized.n_factors - 1) |-> ZeroFactor],
                                !.ftv = [e \in 0..(sized.n_edges - 1) |-> ZeroFtv],
                                !.fcnt = [f \in 0..(sized.n_factors - 1) |-> 0],
                                !.ecnt = [e \in 0..(sized.n_edges - 1) |-> 0]]
                      st1 == ClassPriorLoop(st0, L.m, 0)
                      st2 == CompileOutputFactors(st1, L, L.m, L.m, 1,
                                                  FactorName("lf_accuracy"),
                                                  VidFuncs("lf_accuracy"))
                      st3 == OptionalLoop(self, st2, 1)
                  IN DepNameLoop(self, st3, 1)

(* ------------------------ the learning oracle --------------------------- *)
(* self.fg.learning(out=False); self.fg.getFactorGraph().getWeights(): the  *)
(* external engine returns one learned weight per compiled weight id. The   *)
(* outcome p picks the vector; weight id w gets p * (w + 1), so that the    *)
(* ids stay distinguishable in what is read back.                           *)
OracleOutcomes == {-1, 1}
Learning(n_weights, p) == [w \in 0..(n_weights - 1) |-> p * (w + 1)]

(* --------------------- _process_learned_weights ------------------------- *)
WeightsAttr(name) ==
  CASE name = "lf_prior" -> "lf_prior_weights"
    [] name = "lf_propensity" -> "lf_propensity_weights"
    [] name = "lf_class_propensity" -> "lf_class_propensity_weights"
    [] name = "dep_similar" -> "dep_similar_weights"
    [] name = "dep_fixing" -> "dep_fixing_weights"
    [] name = "dep_reinforcing" -> "dep_reinforcing_weights"
    [] name = "dep_exclusive" -> "dep_exclusive_weights"

(* lines 416-421. r = [self, w_off, reads]; reads collects, for every       *)
(* entry sliced out of w, the position it was read from.                    *)
RECURSIVE OptionalWeightsLoop(_, _, _)
OptionalWeightsLoop(r, w, x) ==
  IF x > Len(optional_names) THEN r
  ELSE LET name == optional_names[x]
           n == r.self.L.v.n
       IN IF Toggle(r.self, name)
          THEN OptionalWeightsLoop(
                 [self |-> [r.self EXCEPT ![WeightsAttr(name)] =
                              Some([j \in 0..(n - 1) |-> w[r.w_off + j]])],
                  w_off |-> r.w_off + n,
                  reads |-> r.reads \cup
                            {[name |-> name, j |-> j, k |-> -1, pos |-> r.w_off + j]
                               : j \in 0..(n - 1)}],
                 w, x + 1)
          ELSE OptionalWeightsLoop(
                 [r EXCEPT !.self[WeightsAttr(name)] = Some([j \in 0..(n - 1) |-> 0])],
                 w, x + 1)

(* lines 428-430: weight_mat[mat.row[i], mat.col[i]] = w[w_off]; w_off += 1 *)
DepWeightMatrix(coo, w, w_off, n) ==
  [n |-> n, e |-> [p \in {coo[i] : i \in 1..Len(coo)} |->
                     w[w_off + (CHOOSE i \in 1..Len(coo) : coo[i] = p) - 1]]]

(* _process_learned_weights. Line 432 calls getattr with the matrix as its  *)
(* only argument, which raises TypeError, so the loop over dep_names ends   *)
(* in its first iteration, after dep_similar_weights has been filled.       *)
ProcessLearnedWeights(self, w) ==
  LET n == self.L.v.n
      s1 == [self EXCEPT !.class_prior_weight = Some(w[0]),
                         !.lf_accuracy_weights = Some([j \in 0..(n - 1) |-> w[1 + j]])]
      r1 == [self |-> s1, w_off |-> 1 + n,
             reads |-> {[name |-> "class_prior", j |-> -1, k |-> -1, pos |-> 0]} \cup
                       {[name |-> "lf_accuracy", j |-> j, k |-> -1, pos |-> 1 + j]
                          : j \in 0..(n - 1)}]
      r2 == OptionalWeightsLoop(r1, w, 1)
      dep_name == dep_names[1]
      coo == CooSeq(self.dep.v[dep_name])
      s3 == [r2.self EXCEPT ![WeightsAttr(dep_name)] =
               Some(DepWeightMatrix(coo, w, r2.w_off, n))]
  IN [self |-> s3, exc |-> "TypeError", site |-> 432,
      reads |-> r2.reads \cup
                {[name |-> dep_name, j |-> coo[i][1], k |-> coo[i][2],
                  pos |-> r2.w_off + i - 1] : i \in 1..Len(coo)}]

(* ------------------------------- train ---------------------------------- *)
(* What the caller of the last call on a model saw, with the bookkeeping    *)
(* the properties read: the arguments, the generator position at entry,     *)
(* the compiler's result cg, the positions _process_learned_weights read,   *)
(* the return value, and how many train() calls were made and returned,     *)
(* and how many marginals() calls were made.                                *)
Observation(op, exc, site, L, deps, rng0, cg, reads, ret, ntrain, ndone, nmarg) ==
  [op |-> op, exc |-> exc, site |-> site, L |-> L, deps |-> deps, rng0 |-> rng0,
   cg |-> cg, reads |-> reads, ret |-> ret, ntrain |-> ntrain, ndone |-> ndone,
   nmarg |-> nmarg]
NoObservation == Observation("none", "none", 0, None_, <<>>, 0, None_, {}, <<>>, 0, 0, 0)

(* The call's arguments and the bookkeeping carried into its observation.   *)
CallInfo(self, L, deps, prev) ==
  [L |-> Some(L), deps |-> deps, rng0 |-> self.rng.pos,
   ntrain |-> prev.ntrain + 1, ndone |-> prev.ndone, nmarg |-> prev.nmarg]
TrainObservation(info, exc, site, cg, reads) ==
  Observation("train", exc, site, info.L, info.deps, info.rng0, cg, reads, <<>>,
              info.ntrain, info.ndone + (IF exc = "none" THEN 1 ELSE 0), info.nmarg)

(* line 145: self._process_learned_weights()                                *)
TrainProcess(plw, c, info) ==
  [self |-> plw.self, obs |-> TrainObservation(info, plw.exc, plw.site, Some(c), plw.reads)]

(* line 144: self.fg.learning(out=False), with oracle outcome p             *)
TrainLearn(s4, c, w, info) ==
  TrainProcess(ProcessLearnedWeights([s4 EXCEPT !.fg.v.learned = TRUE, !.fg.v.w = w], w),
               c, info)

(* line 143: self._compile(); line 361 hands the arrays to the oracle       *)
TrainCompile(s2, c, p, info) ==
  IF c.exc # "none"
  THEN [self |-> [s2 EXCEPT !.rng.pos = @ + c.drawn],
        obs |-> TrainObservation(info, c.exc, c.site, Some(c), {})]
  ELSE TrainLearn([s2 EXCEPT !.rng.pos = @ + c.drawn,
                             !.fg = Some([loaded |-> TRUE, learned |-> FALSE,
                                          weight |-> c.weight, variable |-> c.variable,
                                          factor |-> c.factor, ftv |-> c.ftv,
                                          n_edges |-> c.n_edges, w |-> <<>>])],
                  c, Learning(c.n_weights, p), info)

(* line 142: self.fg = NumbSkull(...), a fresh engine with nothing loaded   *)
TrainNewEngine(s2, p, info) == TrainCompile(s2, Compile(s2), p, info)

(* line 141: self._process_dependency_graph(deps)                           *)
TrainDeps(s0, pd, p, info) ==
  IF pd.exc # "none"
  THEN [self |-> [s0 EXCEPT !.dep = Some(pd.mats)],
        obs |-> TrainObservation(info, pd.exc, pd.site, None_, {})]
  ELSE TrainNewEngine([s0 EXCEPT !.dep = Some(pd.mats), !.fg = Some([loaded |-> FALSE])],
                      p, info)

(* train(L, deps) with p the outcome of the learning oracle: the model      *)
(* afterwards and what the caller saw. Line 140: self.L = L.                *)
TrainResult(self, L, deps, p, prev) ==
  TrainDeps([self EXCEPT !.L = Some(L)], ProcessDependencyGraph(self, deps), p,
            CallInfo(self, L, deps, prev))

Train(inst, L, deps, p) ==
  LET r == TrainResult(gm[inst], L, deps, p, obs[inst])
  IN /\ gm' = [gm EXCEPT ![inst] = r.self]
     /\ obs' = [obs EXCEPT ![inst] = r.obs]
     /\ UNCHANGED sgd

(* ------------------------------ marginals ------------------------------- *)
(* One `logp_x += / -= self.<attr>[...]` statement: the attribute read, its *)
(* index (k = -1 for a vector), the source line, the accumulator and sign.  *)
Stmt(attr, j, k, line, tgt, sgn) ==
  [attr |-> attr, j |-> j, k |-> k, line |-> line, tgt |-> tgt, sgn |-> sgn]

(* lines 158-167: the statements run for the vote of label function j       *)
VoteStmts(lj, j) ==
  IF lj = 1
  THEN <<Stmt("lf_accuracy_weights", j, -1, 159, "true", 1),
         Stmt("lf_accuracy_weights", j, -1, 160, "false", -1),
         Stmt("lf_class_propensity_weights", j, -1, 161, "true", 1),
         Stmt("lf_class_propensity_weights", j, -1, 162, "false", -1)>>
  ELSE IF lj = -1
       THEN <<Stmt("lf_accuracy_weights", j, -1, 164, "true", -1),
              Stmt("lf_accuracy_weights", j, -1, 165, "false", 1),
              Stmt("lf_class_propensity_weights", j, -1, 166, "true", 1),
              Stmt("lf_class_propensity_weights", j, -1, 167, "false", -1)>>
       ELSE <<>>

(* lines 170-179: the statements run for the pair (j, k)                    *)
PairStmts(lj, lk, j, k) ==
  IF j # k /\ (lj # 0 \/ lk = 0)
  THEN (IF lj = -1 /\ lk = 1
        THEN <<Stmt("dep_fixing_weights", j, k, 172, "true", 1)>>
        ELSE IF lj = 1 /\ lk = -1
             THEN <<Stmt("dep_fixing_weights", j, k, 174, "false", 1)>>
             ELSE <<>>)
       \o
       (IF lj = 1 /\ lk = 1
        THEN <<Stmt("dep_reinforcing_weights", j, k, 177, "true", 1)>>
        ELSE IF lj = -1 /\ lk = -1
             THEN <<Stmt("dep_reinforcing_weights", j, k, 179, "false", 1)>>
             ELSE <<>>)
  ELSE <<>>

(* lines 157-179 for candidate i, in execution order: for each j the vote   *)
(* statements, then the pair statements for k = 0, 1, ...                   *)
RECURSIVE RowStmts(_, _, _, _)
RowStmts(L, i, j, k) ==
  IF j >= L.n THEN <<>>
  ELSE IF k = -1 THEN VoteStmts(Cell(L, i, j), j) \o RowStmts(L, i, j, 0)
  ELSE IF k >= L.n THEN RowStmts(L, i, j + 1, -1)
  ELSE PairStmts(Cell(L, i, j), Cell(L, i, k), j, k) \o RowStmts(L, i, j, k + 1)

(* Reading self.<attr>[j] or self.<attr>[j, k]: AttributeError when the     *)
(* attribute was never assigned, IndexError past the end; an entry absent   *)
(* from a sparse matrix reads 0.                                            *)
ReadAttr(self, st) ==
  LET attr == self[st.attr]
  IN IF IsNone(attr) THEN [exc |-> "AttributeError", val |-> 0]
     ELSE IF st.k = -1
          THEN (IF st.j \in DOMAIN attr.v THEN [exc |-> "none", val |-> attr.v[st.j]]
                ELSE [exc |-> "IndexError", val |-> 0])
          ELSE (IF st.j >= attr.v.n \/ st.k >= attr.v.n
                THEN [exc |-> "IndexError", val |-> 0]
                ELSE [exc |-> "none",
                      val |-> IF <<st.j, st.k>> \in DOMAIN attr.v.e
                              THEN attr.v.e[<<st.j, st.k>>] ELSE 0])

(* Runs the statements from position x on; stops at the first exception.    *)
RECURSIVE RunStmts(_, _, _, _)
RunStmts(self, stmts, x, a) ==
  IF x > Len(stmts) THEN a
  ELSE LET r == ReadAttr(self, stmts[x])
       IN IF r.exc # "none"
          THEN [a EXCEPT !.exc = r.exc, !.site = stmts[x].line]
          ELSE IF stmts[x].tgt = "true"
               THEN RunStmts(self, stmts, x + 1,
                             [a EXCEPT !.logp_true = @ + stmts[x].sgn * r.val])
               ELSE RunStmts(self, stmts, x + 1,
                             [a EXCEPT !.logp_false = @ + stmts[x].sgn * r.val])

(* lines 154-181 for candidate i: the argument handed to the sigmoid,       *)
(* logp_true + logp_false, or the exception raised on the way.              *)
MarginalsRow(self, L, i) ==
  IF IsNone(self.class_prior_weight)
  THEN [exc |-> "AttributeError", site |-> 154, z |-> 0]
  ELSE LET a == RunStmts(self, RowStmts(L, i, 0, -1), 1,
                         [exc |-> "none", site |-> 0,
                          logp_true |-> self.class_prior_weight.v,
                          logp_false |-> -1 * self.class_prior_weight.v])
       IN [exc |-> a.exc, site |-> a.site, z |-> a.logp_true + a.logp_false]

(* marginals(L): ret holds, per candidate, the sigmoid's argument           *)
MarginalsResult(self, L) ==
  IF IsNone(self.fg)
  THEN [exc |-> "ValueError", site |-> 149, ret |-> <<>>]
  ELSE LET rows == [i \in 0..(L.m - 1) |-> MarginalsRow(self, L, i)]
           bad == {i \in 0..(L.m - 1) : rows[i].exc # "none"}
       IN IF bad = {}
          THEN [exc |-> "none", site |-> 0, ret |-> [i \in 0..(L.m - 1) |-> rows[i].z]]
          ELSE LET i == CHOOSE x \in bad : \A y \in bad : x <= y
               IN [exc |-> rows[i].exc, site |-> rows[i].site, ret |-> <<>>]

Marginals(inst, L) ==
  LET r == MarginalsResult(gm[inst], L)
  IN /\ obs' = [obs EXCEPT ![inst] =
                  Observation("marginals", r.exc, r.site, Some(L), <<>>,
                              gm[inst].rng.pos, None_, {}, r.ret, @.ntrain, @.ndone,
                              @.nmarg + 1)]
     /\ UNCHANGED <<gm, sgd>>

(* ----------------------- NaiveBayes (SGD learner) ----------------------- *)
(* Weights, gradients and the hyperparameters are fixed-point integers; a   *)
(* nonzero norm is far above 1e-12. The tolerance is a fraction             *)
(* <<numerator, denominator>>.                                              *)
WeightVals == -1..1
Grads == -1..1
Tols == {<<1, 2>>, <<2, 1>>}
Rates == {1}
Mixes == {0, 1}
Vectors(M, S) == [1..M -> S]

(* NaiveBayes.__init__: self.w = None; self.bias_term = bias_term           *)
NewNaiveBayes(bias_term) ==
  [pc |-> "constructed", self |-> [w |-> None_, bias_term |-> bias_term],
   n_iter |-> 0, step |-> 0, w |-> <<>>, g |-> <<>>,
   tol |-> <<0, 1>>, rate |-> 0, alpha |-> 0, mu |-> 0,
   updates |-> 0, broke |-> FALSE, else_ran |-> FALSE, exc |-> "none"]

(* np.linalg.norm(v, ord=2), squared                                        *)
NormSq(v) == SumSeq([i \in 1..Len(v) |-> v[i] * v[i]])
Sign(x) == IF x > 0 THEN 1 ELSE IF x < 0 THEN -1 ELSE 0

(* A variant of the test of line 82 without `and step >= 10`.               *)
ConvergedMut(w, g, tol, step) ==
  \/ NormSq(w) = 0
  \/ NormSq(g) * tol[2] * tol[2] < tol[1] * tol[1] * NormSq(w)
(* line 82: (wn < 1e-12 or g_size / wn < tol) and step >= 10; the ratio is  *)
(* only evaluated for wn >= 1e-12, where it is compared by cross-multiplying *)
(* the squares.                                                             *)
Converged(w, g, tol, step) ==
  /\ \/ NormSq(w) = 0
     \/ NormSq(g) * tol[2] * tol[2] < tol[1] * tol[1] * NormSq(w)
  /\ step >= MinSteps

(* lines 88-101: gradient step, soft threshold, ridge division (rounded     *)
(* toward zero), and the bias weight put back                               *)
UpdateWeights(w, g, rate, alpha, mu, bias_term) ==
  LET M == Len(w)
      stepped == [i \in 1..M |-> w[i] - rate * g[i]]
      w_bias == stepped[M]
      ridge_pen == 1 + (1 - alpha) * rate * mu
      pen == [i \in 1..M |->
                LET soft == Abs(stepped[i]) - rate * alpha * mu
                IN Sign(stepped[i]) * ((IF soft > 0 THEN soft ELSE 0) \div ridge_pen)]
  IN IF bias_term THEN [pen EXCEPT ![M] = w_bias] ELSE pen

(* lines 25-57: train(X, n_iter, w0, rate, alpha, mu, ..., tol) up to the   *)
(* loop; M is the number of columns of X, w0 the argument or np.ones(M).    *)
SgdTrain ==
  /\ sgd.pc = "constructed"
  /\ \E M \in 1..MaxFeatures, n_iter \in 0..MaxIter, tol \in Tols,
        rate \in Rates, alpha \in Mixes, mu \in Mixes :
       \E w0 \in Vectors(M, WeightVals) :
         sgd' = [sgd EXCEPT !.pc = "loop", !.n_iter = n_iter, !.step = 0,
                            !.w = w0, !.g = [i \in 1..M |-> 0],
                            !.tol = tol, !.rate = rate, !.alpha = alpha, !.mu = mu]
  /\ UNCHANGED <<gm, obs>>

(* lines 62-101: one pass of `for step in range(n_iter)`. The gradient g    *)
(* after the momentum term is whatever the expectation helpers make it;     *)
(* the pass either breaks at line 85 or updates the weights.                *)
SgdIteration ==
  /\ sgd.pc = "loop"
  /\ sgd.step < sgd.n_iter
  /\ \E g \in Vectors(Len(sgd.w), Grads) :
       IF Converged(sgd.w, g, sgd.tol, sgd.step)
       THEN sgd' = [sgd EXCEPT !.pc = "broke", !.g = g, !.broke = TRUE]
       ELSE LET w2 == UpdateWeights(sgd.w, g, sgd.rate, sgd.alpha, sgd.mu,
                                    sgd.self.bias_term)
            IN /\ \A i \in 1..Len(w2) : w2[i] \in WeightVals
               /\ sgd' = [sgd EXCEPT !.w = w2, !.g = g, !.step = @ + 1,
                                     !.updates = @ + 1]
  /\ UNCHANGED <<gm, obs>>

(* lines 103-108: the else clause of the loop when it ran out, then         *)
(* self.w = w                                                               *)
SgdReturn ==
  /\ \/ sgd.pc = "broke"
     \/ sgd.pc = "loop" /\ sgd.step = sgd.n_iter
  /\ sgd' = [sgd EXCEPT !.pc = "returned", !.self.w = Some(sgd.w),
                        !.else_ran = (sgd.pc = "loop")]
  /\ UNCHANGED <<gm, obs>>

(* ------------------------- specifications ------------------------------- *)
AnyKinds == DepKinds \cup {DEP_EXCLUSIVE + 1}
Toggles == BOOLEAN \X BOOLEAN \X BOOLEAN

(* One model, constructed with any setting of the three toggles.            *)
Init ==
  /\ \E t \in Toggles : gm = [inst \in {1} |-> NewModel(t[1], t[2], t[3], DefaultSeed)]
  /\ obs = [inst \in {1} |-> NoObservation]
  /\ sgd = NewNaiveBayes(FALSE)

(* train() with label cells from vals, at most k dependency triples, on a   *)
(* model that has been trained fewer than bound times.                      *)
TrainFrom(vals, k, bound) ==
  \E inst \in DOMAIN gm :
    /\ obs[inst].ntrain < bound
    /\ \E L \in Matrices(vals, BOOLEAN), p \in OracleOutcomes :
         \E deps \in SeqsUpTo(Triples(L.n, AnyKinds), k) :
           Train(inst, L, deps, p)

(* The compiler on every argument within the bounds.                        *)
TrainAny == TrainFrom(LabelValues, MaxDeps, MaxTrains)

Next == TrainAny

Spec == Init /\ [][Next]_vars

(* train() followed by marginals(): the training cells are a vote or the    *)
(* stray 2, the matrices handed to marginals() hold votes.                  *)
TrainSome == TrainFrom({1, 2}, MaxMargDeps, MaxTrains)

MarginalsAny ==
  \E inst \in DOMAIN gm :
    /\ obs[inst].nmarg < MaxMarginals
    /\ \E L \in Matrices(ValidLabels, {TRUE}) : Marginals(inst, L)

NextMarg == TrainSome \/ MarginalsAny

SpecMarg == Init /\ [][NextMarg]_vars

(* The SGD learner on its own: a NaiveBayes with either bias setting.       *)
InitSGD ==
  /\ gm = [inst \in {} |-> NewModel(FALSE, FALSE, FALSE, DefaultSeed)]
  /\ obs = [inst \in {} |-> NoObservation]
  /\ \E b \in BOOLEAN : sgd = NewNaiveBayes(b)

NextSGD == SgdTrain \/ SgdIteration \/ SgdReturn

SpecSGD == InitSGD /\ [][NextSGD]_vars

(* Two models constructed with the same toggles, the second with the same   *)
(* or another seed, each trained up to MaxPairTrains times.                 *)
Seeds == {DefaultSeed, DefaultSeed + 1}
PairToggles == {<<FALSE, FALSE, FALSE>>, <<TRUE, TRUE, TRUE>>}
PairMatrices ==
  {RowMatrix(1, 2, [j \in 0..1 |-> 1], cal) : cal \in BOOLEAN}
    \cup {RowMatrix(2, 2, [j \in 0..1 |-> 1], TRUE)}
PairDeps == {<<>>, <<<<0, 1, DEP_FIXING>>>>}
PairOutcomes == {1}

InitDet ==
  /\ \E t \in PairToggles, s \in Seeds :
       gm = [inst \in {1, 2} |->
               NewModel(t[1], t[2], t[3], IF inst = 1 THEN DefaultSeed ELSE s)]
  /\ obs = [inst \in {1, 2} |-> NoObservation]
  /\ sgd = NewNaiveBayes(FALSE)

TrainPair ==
  \E inst \in DOMAIN gm :
    /\ obs[inst].ntrain < MaxPairTrains
    /\ \E L \in PairMatrices, deps \in PairDeps, p \in PairOutcomes :
         Train(inst, L, deps, p)

NextDet == TrainPair

SpecDet == InitDet /\ [][NextDet]_vars

(* ------------------- the layout the compiler announces ------------------ *)
(* The groups in emission order (lines 308, 324-328, 352-358): accuracy,    *)
(* the enabled optional groups, then one group per dependency entry. A      *)
(* per-LF group has j = k = -1.                                             *)
GroupList(self) ==
  LET dg(x) == LET coo == CooSeq(self.dep.v[dep_names[x]])
               IN [i \in 1..Len(coo) |->
                     [name |-> dep_names[x], per_lf |-> FALSE,
                      j |-> coo[i][1], k |-> coo[i][2]]]
      og(x) == IF Toggle(self, optional_names[x])
               THEN <<[name |-> optional_names[x], per_lf |-> TRUE, j |-> -1, k |-> -1]>>
               ELSE <<>>
  IN <<[name |-> "lf_accuracy", per_lf |-> TRUE, j |-> -1, k |-> -1]>>
     \o og(1) \o og(2) \o og(3) \o dg(1) \o dg(2) \o dg(3) \o dg(4)

(* Sizes of a group's blocks, as the returns at lines 384 and 406 advance   *)
(* the three offsets.                                                       *)
GroupFactors(g, m, n) == IF g.per_lf THEN m * n ELSE m
GroupEdges(g, m, n) == Len(VidFuncs(g.name)) * GroupFactors(g, m, n)
GroupWeights(g, m, n) == IF g.per_lf THEN n ELSE 1

(* Each group with the offsets it is compiled at: the class prior takes     *)
(* factors 0..m-1, edges 0..m-1 and weight 0 (line 308 starts at m, m, 1).  *)
Layout(self) ==
  LET gl == GroupList(self)
      m == self.L.v.m
      n == self.L.v.n
  IN [x \in 1..Len(gl) |->
        [name |-> gl[x].name, per_lf |-> gl[x].per_lf, j |-> gl[x].j, k |-> gl[x].k,
         arity |-> Len(VidFuncs(gl[x].name)),
         f_off |-> m + SumSeq([y \in 1..(x - 1) |-> GroupFactors(gl[y], m, n)]),
         ftv_off |-> m + SumSeq([y \in 1..(x - 1) |-> GroupEdges(gl[y], m, n)]),
         w_off |-> 1 + SumSeq([y \in 1..(x - 1) |-> GroupWeights(gl[y], m, n)])]]

(* The factor instances of a group: candidate i, label function j (and k).  *)
(* slot is the instance's rank inside the group's blocks.                   *)
Instances(g, m, n) ==
  IF g.per_lf
  THEN {[i |-> i, j |-> j, k |-> -1, slot |-> n * i + j] : i \in 0..(m - 1), j \in 0..(n - 1)}
  ELSE {[i |-> i, j |-> g.j, k |-> g.k, slot |-> i] : i \in 0..(m - 1)}

(* A model holds a graph that was handed to loadFactorGraph.                *)
Loaded(self) == IsSome(self.fg) /\ self.fg.v.loaded

(* ======================= properties of the compiler ===================== *)

(* C1: in a graph handed to the oracle, the edges of every factor instance  *)
(* target, in order: class prior -> (i); accuracy and class propensity ->   *)
(* (i, m+n*i+j); prior and propensity -> (m+n*i+j); similar and exclusive   *)
(* -> (m+n*i+j, m+n*i+k); fixing and reinforcing -> (i, m+n*i+j, m+n*i+k).  *)
C1_EdgeTargets ==
  \A inst \in DOMAIN gm :
    Loaded(gm[inst]) =>
      LET self == gm[inst]
          m == self.L.v.m
          n == self.L.v.n
          lay == Layout(self)
          ftv == self.fg.v.ftv
      IN /\ \A i \in 0..(m - 1) : ftv[i].vid = i
         /\ \A x \in 1..Len(lay) : \A fi \in Instances(lay[x], m, n) :
              \A e \in 1..lay[x].arity :
                LET pos == lay[x].ftv_off + lay[x].arity * fi.slot + (e - 1)
                IN /\ pos \in DOMAIN ftv
                   /\ ftv[pos].vid = VidFunc(VidFuncs(lay[x].name)[e], m, n, fi.i, fi.j, fi.k)

(* C2: in a graph handed to the oracle every variable id stored in the      *)
(* edge array is at least 0 and below the variable count m + m*n.           *)
C2_VidsInRange ==
  \A inst \in DOMAIN gm :
    Loaded(gm[inst]) =>
      \A e \in DOMAIN gm[inst].fg.v.ftv :
        /\ gm[inst].fg.v.ftv[e].vid >= 0
        /\ gm[inst].fg.v.ftv[e].vid < gm[inst].L.v.m + gm[inst].L.v.m * gm[inst].L.v.n

(* C3: in a graph handed to the oracle every factor's edges are the slots   *)
(* ftv_offset(f) .. ftv_offset(f) + arity(f) - 1: the offset stored in the  *)
(* factor is where its edges were laid out, its arity is their number, and  *)
(* the ranges of two distinct factors do not overlap.                       *)
C3_FactorEdgeRanges ==
  \A inst \in DOMAIN gm :
    Loaded(gm[inst]) =>
      LET self == gm[inst]
          m == self.L.v.m
          n == self.L.v.n
          lay == Layout(self)
          factor == self.fg.v.factor
          range(f) == factor[f].ftv_offset..(factor[f].ftv_offset + factor[f].arity - 1)
      IN /\ \A i \in 0..(m - 1) : factor[i].ftv_offset = i /\ factor[i].arity = 1
         /\ \A x \in 1..Len(lay) : \A fi \in Instances(lay[x], m, n) :
              LET f == lay[x].f_off + fi.slot
              IN /\ f \in DOMAIN factor
                 /\ factor[f].arity = lay[x].arity
                 /\ factor[f].ftv_offset = lay[x].ftv_off + lay[x].arity * fi.slot
         /\ \A f1, f2 \in DOMAIN factor : f1 # f2 => range(f1) \cap range(f2) = {}

(* C4: whenever the compiler gets to populating the arrays, what it writes  *)
(* is what it sized: no write falls outside an array, the three running     *)
(* offsets end at the factor, edge and weight counts, and every factor slot *)
(* and every edge slot is written exactly once.                             *)
C4_CountsMatchWrites ==
  \A inst \in DOMAIN gm :
    LET o == obs[inst]
    IN (o.op = "train" /\ IsSome(o.cg) /\ o.cg.v.exc \in {"none", "IndexError"}) =>
         LET c == o.cg.v
         IN /\ c.exc = "none"
            /\ c.n_vars = gm[inst].L.v.m + gm[inst].L.v.m * gm[inst].L.v.n
            /\ c.n_factors = gm[inst].L.v.m * c.n_weights
            /\ c.f_off = c.n_factors
            /\ c.ftv_off = c.n_edges
            /\ c.w_off = c.n_weights
            /\ \A f \in DOMAIN c.fcnt : c.fcnt[f] = 1
            /\ \A e \in DOMAIN c.ecnt : c.ecnt[e] = 1

(* C5: after learning, every group entry is sliced out of the weight vector *)
(* at the weight id the compiler stored in the factors of that entry: the   *)
(* class prior at 0, accuracy of j at 1+j, every enabled optional group and *)
(* every dependency entry at its id; a disabled optional group is all zero. *)
C5_WeightIdsAgree ==
  \A inst \in DOMAIN gm :
    LET o == obs[inst]
        self == gm[inst]
    IN (o.op = "train" /\ Loaded(self) /\ self.fg.v.learned) =>
         LET m == self.L.v.m
             n == self.L.v.n
             lay == Layout(self)
             factor == self.fg.v.factor
         IN /\ [name |-> "class_prior", j |-> -1, k |-> -1, pos |-> 0] \in o.reads
            /\ \A i \in 0..(m - 1) : factor[i].weightId = 0
            /\ \A x \in 1..Len(lay) : \A fi \in Instances(lay[x], m, n) :
                 \E r \in o.reads :
                   /\ r.name = lay[x].name /\ r.j = fi.j /\ r.k = fi.k
                   /\ lay[x].f_off + fi.slot \in DOMAIN factor
                   /\ r.pos = factor[lay[x].f_off + fi.slot].weightId
            /\ \A x \in 1..3 :
                 ~Toggle(self, optional_names[x]) =>
                   /\ self[WeightsAttr(optional_names[x])] = Some([j \in 0..(n - 1) |-> 0])
                   /\ \A r \in o.reads : r.name # optional_names[x]

(* C6: train() on an invalid argument aborts with the matching error        *)
(* (ValueError raised at line 211 or 216 for a self-dependency or an        *)
(* unrecognized kind, ValueError raised at line 288 for a cell outside      *)
(* {-1, 0, 1}) and neither loads a graph into the oracle nor runs learning. *)
BadTriple(t) == t[1] = t[2] \/ t[3] \notin DepKinds
BadDeps(deps) == \E x \in 1..Len(deps) : BadTriple(deps[x])
BadLabels(L) == \E i \in 0..(L.m - 1), j \in 0..(L.n - 1) : Cell(L, i, j) \notin ValidLabels
HandedToOracle(o) == IsSome(o.cg) /\ o.cg.v.exc = "none"
C6_InvalidInputAborts ==
  \A inst \in DOMAIN gm :
    LET o == obs[inst]
    IN o.op = "train" =>
         /\ BadDeps(o.deps) =>
              o.exc = "ValueError" /\ o.site \in {211, 216} /\ ~HandedToOracle(o)
         /\ (~BadDeps(o.deps) /\ BadLabels(o.L.v)) =>
              o.exc = "ValueError" /\ o.site = 288 /\ ~HandedToOracle(o)

(* ======================== properties of marginals ======================= *)

(* C7: marginals() on a model none of whose train() calls has returned      *)
(* fails with the not-trained error (the ValueError of line 149); after a   *)
(* train() call has returned it yields one value per row of its argument.   *)
C7_NotTrainedError ==
  \A inst \in DOMAIN gm :
    LET o == obs[inst]
    IN o.op = "marginals" =>
         /\ o.ndone = 0 => (o.exc = "ValueError" /\ o.site = 149)
         /\ o.ndone > 0 => (o.exc = "none" /\ DOMAIN o.ret = 0..(o.L.v.m - 1))

(* The weight the oracle learned for dependency entry (j, k) of a kind, or  *)
(* 0 when the pair is not an entry of that kind.                            *)
LearnedDepWeight(self, name, j, k) ==
  LET lay == Layout(self)
      hit == {x \in 1..Len(lay) : lay[x].name = name /\ lay[x].j = j /\ lay[x].k = k}
  IN IF hit = {} THEN 0 ELSE self.fg.v.w[lay[CHOOSE x \in hit : TRUE].w_off]

(* The sum C10 states for row i of L: over ordered pairs j # k, the fixing  *)
(* weight when the two votes are nonzero with opposite signs plus the       *)
(* reinforcing weight when they are nonzero with the same sign.             *)
DepSum(self, L, i) ==
  LET n == L.n
      term(j, k) ==
        IF j = k \/ Cell(L, i, j) = 0 \/ Cell(L, i, k) = 0 THEN 0
        ELSE IF Cell(L, i, j) # Cell(L, i, k)
             THEN LearnedDepWeight(self, "dep_fixing", j, k)
             ELSE LearnedDepWeight(self, "dep_reinforcing", j, k)
  IN SumSeq([x \in 1..(n * n) |-> term((x - 1) \div n, (x - 1) % n)])

(* C10: marginals() on a model whose weights were learned, for a matrix     *)
(* with the trained number of columns, hands the sigmoid, for every row,    *)
(* the dependency sum above (0 without fixing or reinforcing entries),      *)
(* whatever the class prior, accuracy and class propensity weights are.     *)
C10_SigmoidArgument ==
  \A inst \in DOMAIN gm :
    LET o == obs[inst]
        self == gm[inst]
    IN (o.op = "marginals" /\ Loaded(self) /\ self.fg.v.learned
          /\ o.L.v.n = self.L.v.n) =>
         /\ o.exc = "none"
         /\ \A i \in 0..(o.L.v.m - 1) : o.ret[i] = DepSum(self, o.L.v, i)

(* ===================== determinism of the compiler ====================== *)
SameConstruction(a, b) ==
  /\ gm[a].rng.seed = gm[b].rng.seed
  /\ \A x \in 1..Len(optional_names) :
       Toggle(gm[a], optional_names[x]) = Toggle(gm[b], optional_names[x])
(* The last train() of a and of b got the same label matrix and edges and   *)
(* both reached _compile.                                                   *)
SameInputs(a, b) ==
  /\ obs[a].op = "train" /\ obs[b].op = "train"
  /\ obs[a].L = obs[b].L /\ obs[a].deps = obs[b].deps
  /\ IsSome(obs[a].cg) /\ IsSome(obs[b].cg)
CompiledArrays(o) ==
  [weight |-> o.cg.v.weight, variable |-> o.cg.v.variable,
   factor |-> o.cg.v.factor, ftv |-> o.cg.v.ftv]

(* C8 as stated: any two train() calls on models constructed with the same  *)
(* seed and toggles and given the same label matrix and dependency edges    *)
(* compile identical weight, variable, factor and factor-to-variable        *)
(* arrays.                                                                  *)
C8_SameInputsSameArrays ==
  \A a, b \in DOMAIN gm :
    (SameConstruction(a, b) /\ SameInputs(a, b)) =>
      CompiledArrays(obs[a]) = CompiledArrays(obs[b])

(* C8 amended: two train() calls on models constructed with the same seed   *)
(* and toggles, given the same label matrix and dependency edges, and       *)
(* entered after the models' generators have produced the same number of    *)
(* values (as when each is the first call that reaches _compile on its      *)
(* model), compile identical arrays.                                        *)
C8_SameStreamSameArrays ==
  \A a, b \in DOMAIN gm :
    (SameConstruction(a, b) /\ SameInputs(a, b) /\ obs[a].rng0 = obs[b].rng0) =>
      CompiledArrays(obs[a]) = CompiledArrays(obs[b])

(* Two models, one on its first call and one called again after an aborted  *)
(* call, compiled the same arguments from the same generator position.      *)
C8_Witness ==
  /\ SameConstruction(1, 2) /\ SameInputs(1, 2)
  /\ obs[1].rng0 = obs[2].rng0
  /\ obs[1].ntrain = 1 /\ obs[2].ntrain = 2
  /\ obs[1].cg.v.exc = "none" /\ obs[2].cg.v.exc = "none"
  /\ Len(obs[1].deps) > 0

(* ========================== the SGD loop ================================ *)
(* C9: the loop runs at most n_iter passes; it breaks only at a pass index  *)
(* >= 10, after at least 10 updates, at which the weight norm is zero or    *)
(* gradient norm / weight norm is below the tolerance; when it never        *)
(* breaks, n_iter updates are applied; no error is raised and the weights   *)
(* after the last update are stored in self.w.                              *)
C9_SgdLoop ==
  /\ sgd.step <= sgd.n_iter
  /\ sgd.updates <= sgd.n_iter
  /\ sgd.exc = "none"
  /\ sgd.broke =>
       /\ sgd.step >= MinSteps
       /\ sgd.updates >= MinSteps
       /\ sgd.updates = sgd.step
       /\ \/ NormSq(sgd.w) = 0
          \/ NormSq(sgd.g) * sgd.tol[2] * sgd.tol[2]
               < sgd.tol[1] * sgd.tol[1] * NormSq(sgd.w)
  /\ sgd.pc = "returned" =>
       /\ sgd.self.w = Some(sgd.w)
       /\ sgd.else_ran = ~sgd.broke
       /\ ~sgd.broke => sgd.updates = sgd.n_iter
  /\ sgd.pc # "returned" => sgd.self.w = None_

(* The loop broke at pass 10 of a longer budget on a nonzero weight vector  *)
(* and train() returned.                                                    *)
C9_Witness ==
  /\ sgd.pc = "returned" /\ sgd.broke
  /\ sgd.step = MinSteps /\ sgd.n_iter > MinSteps
  /\ NormSq(sgd.w) > 0

====
